---- MODULE Spec2Model ----
(***************************************************************************)
(* A model of the migration store (MigrationLoader) and of the migration  *)
(* executor (MigrationExecutor) running against a PostgreSQL database:    *)
(* the migrations directory, the atlas_migrations table, the user schema, *)
(* the transaction of each client connection, and the position of each    *)
(* invocation of execute / rollback between its awaits.                    *)
(***************************************************************************)
EXTENDS Integers, Sequences, FiniteSets, Bags, TLC

(***************************************************************************)
(* Bounds of the model.                                                    *)
(***************************************************************************)
MaxFiles == 2       \* files in the migrations directory in the initial state
MaxCalls == 2       \* invocations one process makes
MaxEdits == 1       \* changes made to the directory by its user
MaxCount == 2       \* largest count given to rollback
MaxFaults == 2      \* failures of database calls and callbacks in one run
MaxConcCalls == 1   \* invocations one process makes when two run at the same time

Procs == {1, 2}     \* tool processes (each with its own pool)
SeqProcs == {1}     \* the processes of the sequential specification

(***************************************************************************)
(* Strings are sequences of one-character strings, so that the string     *)
(* operations of the source can be computed.                               *)
(***************************************************************************)
F_1a == <<"1", "_", "a", ".", "s", "q", "l">>
F_2b == <<"2", "_", "b", ".", "s", "q", "l">>
F_02c == <<"0", "2", "_", "c", ".", "s", "q", "l">>
F_1aDown == <<"1", "_", "a", ".", "d", "o", "w", "n", ".", "s", "q", "l">>
F_notes == <<"n", "o", "t", "e", "s", ".", "t", "x", "t">>

FileUniverse == {F_1a, F_2b, F_02c, F_1aDown, F_notes}

\* DDL texts; "drop_column" is the text generated from a diff with a dropped column
Contents == {"create_table", "add_column", "drop_column"}

Destructive(content) == content = "drop_column"

Digits == <<"0", "1", "2", "3", "4", "5", "6", "7", "8", "9">>

IsDigit(c) == \E i \in 1..10 : Digits[i] = c

DigitVal(c) == (CHOOSE i \in 1..10 : Digits[i] = c) - 1

\* String.prototype.endsWith
EndsWith(s, suf) ==
    /\ Len(s) >= Len(suf)
    /\ SubSeq(s, Len(s) - Len(suf) + 1, Len(s)) = suf

\* s.match(/^(\d+)/)?.[1] : the longest prefix of digits, <<>> when there is none
RECURSIVE LeadingDigits(_)
LeadingDigits(s) ==
    IF s = <<>> \/ ~IsDigit(Head(s)) THEN <<>>
    ELSE <<Head(s)>> \o LeadingDigits(Tail(s))

\* f.match(/^(\d+)/)?.[1] || '0'
VersionOf(f) == IF LeadingDigits(f) = <<>> THEN <<"0">> ELSE LeadingDigits(f)

\* parseInt of a string of digits
RECURSIVE ParseInt(_)
ParseInt(d) ==
    IF d = <<>> THEN 0
    ELSE 10 * ParseInt(SubSeq(d, 1, Len(d) - 1)) + DigitVal(d[Len(d)])

\* file.replace(/\. sql$/, '') : the pattern is a dot, a space and "sql"
DotSpaceSql == <<".", " ", "s", "q", "l">>

StripName(file) ==
    IF EndsWith(file, DotSpaceSql)
    THEN SubSeq(file, 1, Len(file) - Len(DotSpaceSql))
    ELSE file

DotSql == <<".", "s", "q", "l">>

\* createHash('sha256').update(content).digest('hex')
computeChecksum(content) == <<"sha256", content>>

\* files.filter(f => f.endsWith('.sql'))
RECURSIVE FilterSql(_)
FilterSql(files) ==
    IF files = <<>> THEN <<>>
    ELSE IF EndsWith(Head(files), DotSql)
         THEN <<Head(files)>> \o FilterSql(Tail(files))
         ELSE FilterSql(Tail(files))

\* insertion of f into a list sorted by parseInt(version), after its equals
RECURSIVE InsertByVersion(_, _)
InsertByVersion(f, sorted) ==
    IF sorted = <<>> THEN <<f>>
    ELSE IF ParseInt(VersionOf(f)) - ParseInt(VersionOf(Head(sorted))) < 0
         THEN <<f>> \o sorted
         ELSE <<Head(sorted)>> \o InsertByVersion(f, Tail(sorted))

\* Array.prototype.sort with (a, b) => versionA - versionB : a stable sort
RECURSIVE SortByVersion(_)
SortByVersion(files) ==
    IF files = <<>> THEN <<>>
    ELSE InsertByVersion(files[Len(files)],
                         SortByVersion(SubSeq(files, 1, Len(files) - 1)))

\* the Migration record pushed for one file
MigrationOf(file, content) ==
    [name |-> StripName(file),
     version |-> VersionOf(file),
     content |-> content,
     checksum |-> computeChecksum(content),
     path |-> file]

\* MigrationLoader.loadAll on a directory listing (readdir's order) and the files' texts
loadAll(listing, texts) ==
    LET sqlFiles == SortByVersion(FilterSql(listing))
    IN [i \in 1..Len(sqlFiles) |-> MigrationOf(sqlFiles[i], texts[sqlFiles[i]])]

\* the orders in which readdir may list a set of files
Listings(S) ==
    {l \in [1..Cardinality(S) -> S] : \A i, j \in 1..Cardinality(S) : l[i] = l[j] => i = j}


(***************************************************************************)
(* Texts of errors.                                                        *)
(***************************************************************************)
DbError == <<"db error">>
UniqueViolation == <<"duplicate key value violates unique constraint">>
CallbackError == <<"callback error">>

\* `Failed to apply ${migration.name}:  ${error.message}`
FailedToApply(name, msg) == <<"Failed to apply ">> \o name \o <<":  ">> \o msg

\* `Invalid SQL:  ${error.message}`
InvalidSQL(msg) == <<"Invalid SQL:  ">> \o msg

\* String.prototype.includes
Contains(s, part) ==
    \E i \in 0..(Len(s) - Len(part)) : SubSeq(s, i + 1, i + Len(part)) = part

NoName == <<>>

\* validation.checkForDataLoss of the configuration (its default)
checkForDataLoss == TRUE

VARIABLES
    disk,        \* the migrations directory: file name -> text
    edits,       \* changes made to the directory so far
    tableExists, \* atlas_migrations exists
    history,     \* the committed rows of atlas_migrations
    schema,      \* the committed DDL, a bag of [name, content]
    now,         \* the database's clock
    conn,        \* per process, its client connection: the open transaction
    checkedOut,  \* per process, the clients checked out of its pool
    calls,       \* per process, the invocations made
    ex,          \* per process, the locals of the running execute / rollback
    faults,      \* failures of database calls and callbacks so far
    gh,          \* per process, what the running invocation has done (history variables)
    created,     \* what the calls of MigrationLoader.create have returned, in order
    dv,          \* the last call of diffSchemas: its arguments and its result
    pv           \* the last call of parseSchema: its text and its result

vars == <<disk, edits, faults, tableExists, history, schema, now, conn, checkedOut, calls, ex, gh,
          created, dv, pv>>

NoResult == [outcome |-> "none", success |-> FALSE, migrationsRun |-> <<>>, error |-> <<>>]

Returned(ok, run, err) ==
    [outcome |-> "returned", success |-> ok, migrationsRun |-> run, error |-> err]

IdleEx ==
    [pc |-> "idle", mode |-> "none", migrations |-> <<>>,
     options |-> [dryRun |-> FALSE, force |-> FALSE],
     applied |-> <<>>, pending |-> <<>>, idx |-> 0, migrationsRun |-> <<>>,
     cause |-> <<>>, count |-> 0, toRollback |-> <<>>, result |-> NoResult]

NoConn == [inTx |-> FALSE, txStart |-> 0, txDDL |-> EmptyBag, txRows |-> {}]

NoPrev == [mode |-> "none", migrations |-> <<>>, dryRun |-> FALSE, success |-> FALSE]

FreshGh(prev, h, s) ==
    [committedDDL |-> {}, committedRows |-> {}, deleted |-> {}, started |-> <<>>,
     failedAt |-> NoName, failedStep |-> "none", faulted |-> FALSE, strict |-> FALSE,
     atStart |-> [history |-> h, schema |-> s], prev |-> prev]

\* the text a file has when the model starts
InitText(f) == IF ParseInt(VersionOf(f)) <= 1 THEN "create_table" ELSE "add_column"

\* a SchemaDiff with nothing in it
EmptyDiff == [newTables |-> <<>>, droppedTables |-> <<>>, modifiedTables |-> <<>>,
              warnings |-> <<>>]

NoDiffCall == [called |-> FALSE, current |-> [tables |-> <<>>],
               desired |-> [tables |-> <<>>], diff |-> EmptyDiff]

NoParseCall == [called |-> FALSE, script |-> <<>>, text |-> <<>>, tables |-> <<>>]

\* everything but the directory, before any call
Quiet ==
    /\ edits = 0
    /\ faults = 0
    /\ tableExists = FALSE
    /\ history = {}
    /\ schema = EmptyBag
    /\ now = 1
    /\ conn = [p \in Procs |-> NoConn]
    /\ checkedOut = [p \in Procs |-> 0]
    /\ calls = [p \in Procs |-> 0]
    /\ ex = [p \in Procs |-> IdleEx]
    /\ gh = [p \in Procs |-> FreshGh(NoPrev, {}, EmptyBag)]
    /\ created = <<>>
    /\ dv = NoDiffCall
    /\ pv = NoParseCall

Init ==
    /\ \E S \in SUBSET FileUniverse :
          /\ Cardinality(S) <= MaxFiles
          /\ disk = [f \in S |-> InitText(f)]
    /\ Quiet

(***************************************************************************)
(* The user of the directory: a file is edited, deleted or added.  The    *)
(* executor never reads the directory, so these steps are taken between   *)
(* invocations.                                                            *)
(***************************************************************************)
AllIdle == \A p \in Procs : ex[p].pc = "idle"

EditFile ==
    /\ AllIdle /\ edits < MaxEdits
    /\ \E f \in DOMAIN disk, c \in Contents :
          /\ c # disk[f]
          /\ disk' = [disk EXCEPT ![f] = c]
    /\ edits' = edits + 1
    /\ UNCHANGED <<faults, tableExists, history, schema, now, conn, checkedOut, calls, ex, gh, created, dv, pv>>

DeleteFile ==
    /\ AllIdle /\ edits < MaxEdits
    /\ \E f \in DOMAIN disk :
          disk' = [g \in (DOMAIN disk) \ {f} |-> disk[g]]
    /\ edits' = edits + 1
    /\ UNCHANGED <<faults, tableExists, history, schema, now, conn, checkedOut, calls, ex, gh, created, dv, pv>>

AddFile ==
    /\ AllIdle /\ edits < MaxEdits
    /\ \E f \in FileUniverse \ DOMAIN disk, c \in Contents :
          disk' = [g \in (DOMAIN disk) \cup {f} |-> IF g = f THEN c ELSE disk[g]]
    /\ edits' = edits + 1
    /\ UNCHANGED <<faults, tableExists, history, schema, now, conn, checkedOut, calls, ex, gh, created, dv, pv>>


(***************************************************************************)
(* The database.  A statement of a connection with an open transaction    *)
(* takes effect at COMMIT; a statement outside a transaction commits at   *)
(* once.                                                                   *)
(***************************************************************************)
RowNames(rows) == {r.name : r \in rows}

Effect(m) == [name |-> m.name, content |-> m.content]

\* the rows in ascending order of applied_at
RECURSIVE SortedRows(_)
SortedRows(rows) ==
    IF rows = {} THEN <<>>
    ELSE LET first == CHOOSE r \in rows : \A q \in rows : r.applied_at <= q.applied_at
         IN <<first>> \o SortedRows(rows \ {first})

Reverse(s) == [i \in 1..Len(s) |-> s[Len(s) + 1 - i]]

\* a SELECT without its LIMIT
Limit_Unlimited(s, n) == s

Limit(s, n) == SubSeq(s, 1, IF n < Len(s) THEN n ELSE Len(s))

Names(s) == [i \in 1..Len(s) |-> s[i].name]

Range(s) == {s[i] : i \in 1..Len(s)}

\* another connection holds an uncommitted row of this name: the INSERT waits
InsertBlocked(p, name) ==
    \E q \in Procs \ {p} : conn[q].inTx /\ name \in RowNames(conn[q].txRows)

(***************************************************************************)
(* MigrationExecutor.execute                                               *)
(***************************************************************************)
\* what a call to the database or to a callback may do: succeed, or fail
Outcomes == IF faults < MaxFaults THEN BOOLEAN ELSE {TRUE}

Fault(ok) == faults' = IF ok THEN faults ELSE faults + 1

\* a filter that keeps every migration, applied or not
PendingOf_KeepsApplied(migs, appliedNames) == migs

\* migrations.filter(m => !appliedSet.has(m.name))
RECURSIVE PendingOf(_, _)
PendingOf(migs, appliedNames) ==
    IF migs = <<>> THEN <<>>
    ELSE IF Head(migs).name \in appliedNames
         THEN PendingOf(Tail(migs), appliedNames)
         ELSE <<Head(migs)>> \o PendingOf(Tail(migs), appliedNames)

\* an execute that does not look at options.dryRun
IsDryRun_Ignored(options) == FALSE

\* if (options.dryRun)
IsDryRun(options) == options.dryRun

Cur(p) == ex[p].pending[ex[p].idx]

\* a catch that returns without reaching the finally block
Failure_SkipsRelease(p, run, msg) ==
    /\ ex' = [ex EXCEPT ![p].pc = "done", ![p].result = Returned(FALSE, run, msg)]
    /\ gh' = [gh EXCEPT ![p].faulted = TRUE]

\* the catch of the outer try: the result with success false
Failure(p, run, msg) ==
    /\ ex' = [ex EXCEPT ![p].pc = "release", ![p].result = Returned(FALSE, run, msg)]
    /\ gh' = [gh EXCEPT ![p].faulted = TRUE]

\* a statement of the per-migration try throws: control goes to its catch
Throw(p, msg) ==
    /\ ex' = [ex EXCEPT ![p].pc = "rollback", ![p].cause = msg]
    /\ gh' = [gh EXCEPT ![p].faulted = TRUE, ![p].failedAt = Cur(p).name,
                        ![p].failedStep = ex[p].pc]

\* migrateCommand: the directory has no migration, execute is not called
MigrateNone(p) ==
    /\ ex[p].pc = "idle" /\ calls[p] < MaxCalls
    /\ \E listing \in Listings(DOMAIN disk) : Len(loadAll(listing, disk)) = 0
    /\ calls' = [calls EXCEPT ![p] = @ + 1]
    /\ UNCHANGED <<faults, disk, edits, tableExists, history, schema, now, conn, checkedOut, ex, gh, created, dv, pv>>

\* migrateCommand: loadAll, then execute(migrations, {dryRun, force, onMigration})
Migrate(p) ==
    /\ ex[p].pc = "idle" /\ calls[p] < MaxCalls
    /\ \E listing \in Listings(DOMAIN disk), dry \in BOOLEAN, force \in BOOLEAN :
          LET migs == loadAll(listing, disk)
          IN /\ Len(migs) > 0
             /\ ex' = [ex EXCEPT ![p] =
                         [IdleEx EXCEPT !.pc = "connect", !.mode = "execute",
                                        !.migrations = migs,
                                        !.options = [dryRun |-> dry, force |-> force]]]
    /\ gh' = [gh EXCEPT ![p] = FreshGh(gh[p].prev, history, schema)]
    /\ UNCHANGED <<faults, disk, edits, tableExists, history, schema, now, conn, checkedOut, calls, created, dv, pv>>

\* rollback(count)
Rollback(p) ==
    /\ ex[p].pc = "idle" /\ calls[p] < MaxCalls
    /\ \E n \in 1..MaxCount :
          ex' = [ex EXCEPT ![p] =
                   [IdleEx EXCEPT !.pc = "connect", !.mode = "rollback", !.count = n]]
    \* rollback(count) takes no mode: the mode the caller means is recorded only
    /\ \E st \in BOOLEAN :
          gh' = [gh EXCEPT ![p] =
                   [FreshGh(gh[p].prev, history, schema) EXCEPT !.strict = st]]
    /\ UNCHANGED <<faults, disk, edits, tableExists, history, schema, now, conn, checkedOut, calls, created, dv, pv>>

\* const client = await this.pool.connect()
Connect(p) ==
    /\ ex[p].pc = "connect"
    /\ \E ok \in Outcomes :
       /\ Fault(ok)
       /\ IF ok
          THEN /\ checkedOut' = [checkedOut EXCEPT ![p] = @ + 1]
               /\ ex' = [ex EXCEPT ![p].pc = "ensure"]
               /\ gh' = gh
          ELSE /\ checkedOut' = checkedOut
               /\ ex' = [ex EXCEPT ![p].pc = "done",
                                   ![p].result = [NoResult EXCEPT !.outcome = "threw"]]
               /\ gh' = [gh EXCEPT ![p].faulted = TRUE]
    /\ UNCHANGED <<disk, edits, tableExists, history, schema, now, conn, calls, created, dv, pv>>

\* await this.ensureMigrationTable(client)
Ensure(p) ==
    /\ ex[p].pc = "ensure"
    /\ \E ok \in Outcomes :
       /\ Fault(ok)
       /\ IF ok
          THEN /\ tableExists' = TRUE
               /\ ex' = [ex EXCEPT ![p].pc =
                           IF ex[p].mode = "execute" THEN "getApplied" ELSE "select"]
               /\ gh' = gh
          ELSE /\ tableExists' = tableExists
               /\ Failure(p, <<>>, DbError)
    /\ UNCHANGED <<disk, edits, history, schema, now, conn, checkedOut, calls, created, dv, pv>>

\* getAppliedMigrations, the filter, and the two early returns
GetApplied(p) ==
    /\ ex[p].pc = "getApplied"
    /\ \E ok \in Outcomes :
       /\ Fault(ok)
       /\ IF ok
          THEN LET applied == SortedRows(history)
                   pending == PendingOf(ex[p].migrations, Range(Names(applied)))
               IN /\ ex' = [ex EXCEPT
                       ![p].applied = applied,
                       ![p].pending = pending,
                       ![p].idx = IF Len(pending) = 0 \/ IsDryRun(ex[p].options) THEN 0 ELSE 1,
                       ![p].pc = IF Len(pending) = 0 \/ IsDryRun(ex[p].options)
                                 THEN "release" ELSE "begin",
                       ![p].result =
                           IF Len(pending) = 0 THEN Returned(TRUE, <<>>, <<>>)
                           ELSE IF IsDryRun(ex[p].options)
                                THEN Returned(TRUE, Names(pending), <<>>)
                                ELSE NoResult]
                  /\ gh' = gh
          ELSE Failure(p, <<>>, DbError)
    /\ UNCHANGED <<disk, edits, tableExists, history, schema, now, conn, checkedOut, calls, created, dv, pv>>

\* an execute that issues no BEGIN: its statements run outside a transaction
Begin_NoTransaction(p) ==
    /\ ex[p].pc = "begin"
    /\ ex' = [ex EXCEPT ![p].pc = "prepare"]
    /\ gh' = [gh EXCEPT ![p].started = Append(@, Cur(p).name)]
    /\ UNCHANGED <<faults, disk, edits, tableExists, history, schema, now, conn, checkedOut, calls, created, dv, pv>>

\* await client.query('BEGIN')
Begin(p) ==
    /\ ex[p].pc = "begin"
    /\ \E ok \in Outcomes :
       /\ Fault(ok)
       /\ IF ok
          THEN /\ conn' = [conn EXCEPT ![p] =
                             [inTx |-> TRUE, txStart |-> now, txDDL |-> EmptyBag, txRows |-> {}]]
               /\ now' = now + 1
               /\ ex' = [ex EXCEPT ![p].pc = "prepare"]
               /\ gh' = [gh EXCEPT ![p].started = Append(@, Cur(p).name)]
          ELSE /\ conn' = conn /\ now' = now
               /\ ex' = [ex EXCEPT ![p].pc = "rollback", ![p].cause = DbError]
               /\ gh' = [gh EXCEPT ![p].faulted = TRUE, ![p].failedAt = Cur(p).name,
                                   ![p].failedStep = "begin",
                                   ![p].started = Append(@, Cur(p).name)]
    /\ UNCHANGED <<disk, edits, tableExists, history, schema, checkedOut, calls, created, dv, pv>>

\* validateSQL: await client.query(`PREPARE ${randomId} AS ${sql}`)
Prepare(p) ==
    /\ ex[p].pc = "prepare"
    /\ \E ok \in Outcomes :
       /\ Fault(ok)
       /\ IF ok
          THEN ex' = [ex EXCEPT ![p].pc = "dealloc"] /\ gh' = gh
          ELSE Throw(p, InvalidSQL(DbError))
    /\ UNCHANGED <<disk, edits, tableExists, history, schema, now, conn, checkedOut, calls, created, dv, pv>>

\* validateSQL: await client.query(`DEALLOCATE ${randomId}`)
Dealloc(p) ==
    /\ ex[p].pc = "dealloc"
    /\ \E ok \in Outcomes :
       /\ Fault(ok)
       /\ IF ok
          THEN ex' = [ex EXCEPT ![p].pc = "exec"] /\ gh' = gh
          ELSE Throw(p, InvalidSQL(DbError))
    /\ UNCHANGED <<disk, edits, tableExists, history, schema, now, conn, checkedOut, calls, created, dv, pv>>

\* await client.query(migration.content)
ExecDDL(p) ==
    /\ ex[p].pc = "exec"
    /\ \E ok \in Outcomes :
       /\ Fault(ok)
       /\ IF ok
          THEN /\ ex' = [ex EXCEPT ![p].pc = "insert"]
               /\ IF conn[p].inTx
                  THEN /\ conn' = [conn EXCEPT ![p].txDDL = @ (+) SetToBag({Effect(Cur(p))})]
                       /\ schema' = schema
                       /\ gh' = gh
                  ELSE /\ conn' = conn
                       /\ schema' = schema (+) SetToBag({Effect(Cur(p))})
                       /\ gh' = [gh EXCEPT ![p].committedDDL = @ \cup {Cur(p).name}]
          ELSE /\ Throw(p, DbError)
               /\ UNCHANGED <<conn, schema>>
    /\ UNCHANGED <<disk, edits, tableExists, history, now, checkedOut, calls, created, dv, pv>>

\* await client.query(`INSERT INTO atlas_migrations (name, checksum, applied_at) ...`)
\* the name column of atlas_migrations is created without UNIQUE
InsertHistory_NoUnique(p) ==
    /\ ex[p].pc = "insert"
    /\ \E ok \in Outcomes :
       /\ Fault(ok)
       /\ IF ok
          THEN /\ ex' = [ex EXCEPT ![p].pc = "commit"]
               /\ IF conn[p].inTx
                  THEN /\ conn' = [conn EXCEPT ![p].txRows = @ \cup
                                     {[name |-> Cur(p).name, checksum |-> Cur(p).checksum,
                                       applied_at |-> conn[p].txStart]}]
                       /\ UNCHANGED <<history, now>>
                       /\ gh' = gh
                  ELSE /\ conn' = conn
                       /\ history' = history \cup
                                     {[name |-> Cur(p).name, checksum |-> Cur(p).checksum,
                                       applied_at |-> now]}
                       /\ now' = now + 1
                       /\ gh' = [gh EXCEPT ![p].committedRows = @ \cup {Cur(p).name}]
          ELSE /\ Throw(p, IF ok THEN UniqueViolation ELSE DbError)
               /\ UNCHANGED <<conn, history, now>>
    /\ UNCHANGED <<disk, edits, tableExists, schema, checkedOut, calls, created, dv, pv>>

InsertHistory(p) ==
    /\ ex[p].pc = "insert"
    /\ ~InsertBlocked(p, Cur(p).name)
    /\ \E ok \in Outcomes :
       /\ Fault(ok)
       /\ IF ok /\ Cur(p).name \notin RowNames(history) \cup RowNames(conn[p].txRows)
          THEN /\ ex' = [ex EXCEPT ![p].pc = "commit"]
               /\ IF conn[p].inTx
                  THEN /\ conn' = [conn EXCEPT ![p].txRows = @ \cup
                                     {[name |-> Cur(p).name, checksum |-> Cur(p).checksum,
                                       applied_at |-> conn[p].txStart]}]
                       /\ UNCHANGED <<history, now>>
                       /\ gh' = gh
                  ELSE /\ conn' = conn
                       /\ history' = history \cup
                                     {[name |-> Cur(p).name, checksum |-> Cur(p).checksum,
                                       applied_at |-> now]}
                       /\ now' = now + 1
                       /\ gh' = [gh EXCEPT ![p].committedRows = @ \cup {Cur(p).name}]
          ELSE /\ Throw(p, IF ok THEN UniqueViolation ELSE DbError)
               /\ UNCHANGED <<conn, history, now>>
    /\ UNCHANGED <<disk, edits, tableExists, schema, checkedOut, calls, created, dv, pv>>

\* await client.query('COMMIT'); a COMMIT that fails leaves the transaction aborted
Commit(p) ==
    /\ ex[p].pc = "commit"
    /\ \E ok \in Outcomes :
       /\ Fault(ok)
       /\ IF ok
          THEN /\ history' = history \cup conn[p].txRows
               /\ schema' = schema (+) conn[p].txDDL
               /\ conn' = [conn EXCEPT ![p] = NoConn]
               /\ ex' = [ex EXCEPT ![p].pc = "post"]
               /\ gh' = [gh EXCEPT
                           ![p].committedRows = @ \cup RowNames(conn[p].txRows),
                           ![p].committedDDL = @ \cup {e.name : e \in BagToSet(conn[p].txDDL)}]
          ELSE /\ conn' = [conn EXCEPT ![p] = NoConn]
               /\ Throw(p, DbError)
               /\ UNCHANGED <<history, schema>>
    /\ UNCHANGED <<disk, edits, tableExists, now, checkedOut, calls, created, dv, pv>>

\* migrationsRun.push(migration.name); options.onMigration?.(migration.name); next iteration
Post(p) ==
    /\ ex[p].pc = "post"
    /\ LET run == Append(ex[p].migrationsRun, Cur(p).name)
       IN \E throws \in {~ok : ok \in Outcomes} :
           /\ Fault(~throws)
           /\ IF throws
             THEN /\ ex' = [ex EXCEPT ![p].pc = "rollback", ![p].cause = CallbackError,
                                      ![p].migrationsRun = run]
                  /\ gh' = [gh EXCEPT ![p].faulted = TRUE, ![p].failedAt = Cur(p).name,
                                      ![p].failedStep = "post"]
             ELSE /\ gh' = gh
                  /\ IF ex[p].idx < Len(ex[p].pending)
                     THEN ex' = [ex EXCEPT ![p].pc = "begin", ![p].idx = @ + 1,
                                           ![p].migrationsRun = run]
                     ELSE ex' = [ex EXCEPT ![p].pc = "release", ![p].migrationsRun = run,
                                           ![p].result = Returned(TRUE, run, <<>>)]
    /\ UNCHANGED <<disk, edits, tableExists, history, schema, now, conn, checkedOut, calls, created, dv, pv>>

\* catch: await client.query('ROLLBACK'); throw new Error(`Failed to apply ...`)
RollbackTx(p) ==
    /\ ex[p].pc = "rollback"
    /\ conn' = [conn EXCEPT ![p] = NoConn]
    /\ \E ok \in Outcomes :
       /\ Fault(ok)
       /\ ex' = [ex EXCEPT ![p].pc = "release",
                           ![p].result =
                               Returned(FALSE, ex[p].migrationsRun,
                                        IF ok THEN FailedToApply(Cur(p).name, ex[p].cause)
                                        ELSE DbError)]
    /\ UNCHANGED <<disk, edits, tableExists, history, schema, now, checkedOut, calls, gh, created, dv, pv>>

\* finally: client.release()
Release(p) ==
    /\ ex[p].pc = "release"
    /\ checkedOut' = [checkedOut EXCEPT ![p] = @ - 1]
    /\ ex' = [ex EXCEPT ![p].pc = "done"]
    /\ UNCHANGED <<faults, disk, edits, tableExists, history, schema, now, conn, calls, gh, created, dv, pv>>

\* the call is over: the process ends, the next invocation is a new one
Return(p) ==
    /\ ex[p].pc = "done"
    /\ ex' = [ex EXCEPT ![p] = IdleEx]
    /\ calls' = [calls EXCEPT ![p] = @ + 1]
    /\ gh' = [gh EXCEPT ![p] = FreshGh(
                [mode |-> ex[p].mode, migrations |-> ex[p].migrations,
                 dryRun |-> ex[p].options.dryRun,
                 success |-> ex[p].result.outcome = "returned" /\ ex[p].result.success],
                {}, EmptyBag)]
    /\ UNCHANGED <<faults, disk, edits, tableExists, history, schema, now, conn, checkedOut, created, dv, pv>>

(***************************************************************************)
(* MigrationExecutor.rollback                                              *)
(***************************************************************************)
\* SELECT name ... ORDER BY applied_at DESC LIMIT $1; rows.map(r => r.name).reverse()
Select(p) ==
    /\ ex[p].pc = "select"
    /\ \E ok \in Outcomes :
       /\ Fault(ok)
       /\ IF ok
          THEN LET toRollback == Reverse(Names(Limit(Reverse(SortedRows(history)), ex[p].count)))
               IN /\ ex' = [ex EXCEPT
                       ![p].toRollback = toRollback,
                       ![p].idx = IF Len(toRollback) = 0 THEN 0 ELSE 1,
                       ![p].pc = IF Len(toRollback) = 0 THEN "release" ELSE "delete",
                       ![p].result = IF Len(toRollback) = 0
                                     THEN Returned(TRUE, <<>>, <<>>) ELSE NoResult]
                  /\ gh' = gh
          ELSE Failure(p, <<>>, DbError)
    /\ UNCHANGED <<disk, edits, tableExists, history, schema, now, conn, checkedOut, calls, created, dv, pv>>

\* await client.query(`DELETE FROM atlas_migrations WHERE name = $1`, [migrationName])
Delete(p) ==
    /\ ex[p].pc = "delete"
    /\ \E ok \in Outcomes :
       /\ Fault(ok)
       /\ IF ok
          THEN LET name == ex[p].toRollback[ex[p].idx]
                   gone == {r \in history : r.name = name}
               IN /\ history' = history \ gone
                  /\ gh' = [gh EXCEPT ![p].deleted = @ \cup RowNames(gone)]
                  /\ IF ex[p].idx < Len(ex[p].toRollback)
                     THEN ex' = [ex EXCEPT ![p].idx = @ + 1]
                     ELSE ex' = [ex EXCEPT ![p].pc = "release",
                                           ![p].result = Returned(TRUE, ex[p].toRollback, <<>>)]
          ELSE /\ Failure(p, <<>>, DbError)
               /\ history' = history
    /\ UNCHANGED <<disk, edits, tableExists, schema, now, conn, checkedOut, calls, created, dv, pv>>

(***************************************************************************)
(* Specifications.  Spec: one process, invocation after invocation, and   *)
(* the user of the directory.  ConcSpec: two processes at the same time.  *)
(***************************************************************************)
Step(p) ==
    \/ MigrateNone(p) \/ Migrate(p) \/ Rollback(p)
    \/ Connect(p) \/ Ensure(p) \/ GetApplied(p)
    \/ Begin(p) \/ Prepare(p) \/ Dealloc(p) \/ ExecDDL(p) \/ InsertHistory(p)
    \/ Commit(p) \/ Post(p) \/ RollbackTx(p) \/ Release(p) \/ Return(p)
    \/ Select(p) \/ Delete(p)

Next ==
    \/ EditFile \/ DeleteFile \/ AddFile
    \/ \E p \in SeqProcs : Step(p)

Spec == Init /\ [][Next]_vars

\* two tool processes started on the same database, each running migrate
ConcMigrate(p) == calls[p] < MaxConcCalls /\ Migrate(p)

ConcStep(p) ==
    \/ ConcMigrate(p)
    \/ Connect(p) \/ Ensure(p) \/ GetApplied(p)
    \/ Begin(p) \/ Prepare(p) \/ Dealloc(p) \/ ExecDDL(p) \/ InsertHistory(p)
    \/ Commit(p) \/ Post(p) \/ RollbackTx(p) \/ Release(p) \/ Return(p)

ConcNext == \E p \in Procs : ConcStep(p)

ConcSpec == Init /\ [][ConcNext]_vars

(***************************************************************************)
(* MigrationLoader.create, run on a directory that may also hold files    *)
(* that are not migrations.                                                *)
(***************************************************************************)
MaxCreates == 2

\* a file left in the directory whose name starts with digits and does not end in .sql
F_3tmp == <<"3", "_", "x", ".", "s", "q", "l", ".", "t", "m", "p">>

LoaderUniverse == FileUniverse \cup {F_3tmp}

\* the names create is called with
CreateNames == {<<"x">>, <<"y">>}

\* String(n) of a natural number
RECURSIVE ToDigits(_)
ToDigits(n) ==
    IF n < 10 THEN <<Digits[n + 1]>>
    ELSE ToDigits(n \div 10) \o <<Digits[(n % 10) + 1]>>

MaxOf(S) == CHOOSE m \in S : \A v \in S : v <= m

\* getNextVersionNumber: every entry of readdir is mapped to parseInt of its leading
\* digits ('0' without any); 1 when readdir throws
getNextVersionNumber(files, ok) ==
    IF ok THEN MaxOf({0} \cup {ParseInt(VersionOf(f)) : f \in files}) + 1 ELSE 1

\* fileName.replace(/\.sql$/, '')
StripDotSql(fileName) ==
    IF EndsWith(fileName, DotSql)
    THEN SubSeq(fileName, 1, Len(fileName) - Len(DotSql))
    ELSE fileName

\* create(name, content): the file name is built with ". sql"; no file is written
Create ==
    /\ AllIdle /\ Len(created) < MaxCreates
    /\ \E name \in CreateNames, content \in Contents, ok \in Outcomes :
          /\ Fault(ok)
          /\ LET versionNumber == getNextVersionNumber(DOMAIN disk, ok)
                 fileName == ToDigits(versionNumber) \o <<"_">> \o name \o DotSpaceSql
             IN created' = Append(created,
                    [returned |-> [name |-> StripDotSql(fileName),
                                   version |-> ToDigits(versionNumber),
                                   content |-> content,
                                   checksum |-> computeChecksum(content),
                                   path |-> fileName],
                     readdirOk |-> ok,
                     files |-> DOMAIN disk])
    /\ UNCHANGED <<disk, edits, tableExists, history, schema, now, conn, checkedOut, calls, ex, gh, dv, pv>>

LoaderInit ==
    /\ \E S \in SUBSET LoaderUniverse :
          /\ Cardinality(S) <= MaxFiles
          /\ disk = [f \in S |-> InitText(f)]
    /\ Quiet

LoaderNext == Create

LoaderSpec == LoaderInit /\ [][LoaderNext]_vars

(***************************************************************************)
(* The schema differ.  A SchemaTable is [name, columns] (diffSchemas      *)
(* reads nothing else of it), a SchemaColumn is [name, type, nullable,    *)
(* primaryKey, defaultValue], an absent defaultValue being "undefined".   *)
(***************************************************************************)
\* new Map(items.map(x => [x.name, x])): has, get (the last entry of a name wins)
MapHas(items, k) == \E i \in 1..Len(items) : items[i].name = k

MapGet(items, k) ==
    items[CHOOSE i \in 1..Len(items) :
              /\ items[i].name = k
              /\ \A j \in (i + 1)..Len(items) : items[j].name # k]

\* the keys of the Map, in the order of their first insertion
RECURSIVE MapKeys(_)
MapKeys(items) ==
    IF items = <<>> THEN <<>>
    ELSE LET front == SubSeq(items, 1, Len(items) - 1)
             k == items[Len(items)].name
         IN IF MapHas(front, k) THEN MapKeys(front) ELSE Append(MapKeys(front), k)

\* the values of the Map, in iteration order
MapValues(items) ==
    [i \in 1..Len(MapKeys(items)) |-> MapGet(items, MapKeys(items)[i])]

\* the comparison reads nullable on one side and primaryKey on the other
ColumnChanged_WrongField(currentCol, desiredCol) ==
    \/ currentCol.type # desiredCol.type
    \/ currentCol.nullable # desiredCol.primaryKey
    \/ currentCol.defaultValue # desiredCol.defaultValue

\* the condition under which diffTables pushes a ColumnDiff
ColumnChanged(currentCol, desiredCol) ==
    \/ currentCol.type # desiredCol.type
    \/ currentCol.nullable # desiredCol.nullable
    \/ currentCol.defaultValue # desiredCol.defaultValue

ColumnDiffOf(currentCol, desiredCol) ==
    [columnName |-> desiredCol.name,
     newType |-> desiredCol.type,
     newNullable |-> desiredCol.nullable,
     oldType |-> currentCol.type,
     oldNullable |-> currentCol.nullable,
     defaultChanged |-> currentCol.defaultValue # desiredCol.defaultValue]

\* the loop over the current columns tests the current Map instead of the desired one
diffTables_DroppedTestsCurrent(current, desired) ==
    LET desiredCols == MapValues(desired.columns)
        currentCols == MapValues(current.columns)
        changed == SelectSeq(desiredCols,
                       LAMBDA c : /\ MapHas(current.columns, c.name)
                                  /\ ColumnChanged(MapGet(current.columns, c.name), c))
    IN [tableName |-> current.name,
        newColumns |-> SelectSeq(desiredCols, LAMBDA c : ~MapHas(current.columns, c.name)),
        droppedColumns |-> SelectSeq(currentCols, LAMBDA c : MapHas(current.columns, c.name)),
        modifiedColumns |->
            [i \in 1..Len(changed) |->
                ColumnDiffOf(MapGet(current.columns, changed[i].name), changed[i])]]

diffTables(current, desired) ==
    LET desiredCols == MapValues(desired.columns)
        currentCols == MapValues(current.columns)
        changed == SelectSeq(desiredCols,
                       LAMBDA c : /\ MapHas(current.columns, c.name)
                                  /\ ColumnChanged(MapGet(current.columns, c.name), c))
    IN [tableName |-> current.name,
        newColumns |-> SelectSeq(desiredCols, LAMBDA c : ~MapHas(current.columns, c.name)),
        droppedColumns |-> SelectSeq(currentCols, LAMBDA c : ~MapHas(desired.columns, c.name)),
        modifiedColumns |->
            [i \in 1..Len(changed) |->
                ColumnDiffOf(MapGet(current.columns, changed[i].name), changed[i])]]

\* names.join(', ')
RECURSIVE Join(_)
Join(names) ==
    IF names = <<>> THEN <<>>
    ELSE IF Len(names) = 1 THEN names
    ELSE <<Head(names), ", ">> \o Join(Tail(names))

DroppedWarning(tableName) ==
    <<"Table \"", tableName, "\" will be DROPPED.  This is destructive! ">>

\* the warning names the first dropped column only
LoseColumnsWarning_FirstOnly(tableName, droppedColumns) ==
    <<"Table \"", tableName, "\" will lose columns: ", droppedColumns[1].name>>

LoseColumnsWarning(tableName, droppedColumns) ==
    <<"Table \"", tableName, "\" will lose columns: ">>
        \o Join([i \in 1..Len(droppedColumns) |-> droppedColumns[i].name])

TableChanged(tableDiff) ==
    \/ Len(tableDiff.newColumns) > 0
    \/ Len(tableDiff.droppedColumns) > 0
    \/ Len(tableDiff.modifiedColumns) > 0

diffSchemas(current, desired) ==
    LET desiredTables == MapValues(desired.tables)
        currentTables == MapValues(current.tables)
        dropped == SelectSeq(currentTables, LAMBDA t : ~MapHas(desired.tables, t.name))
        common == SelectSeq(desiredTables, LAMBDA t : MapHas(current.tables, t.name))
        tableDiffs == [i \in 1..Len(common) |->
                          diffTables(MapGet(current.tables, common[i].name), common[i])]
        modified == SelectSeq(tableDiffs, TableChanged)
        losing == SelectSeq(modified, LAMBDA d : Len(d.droppedColumns) > 0)
    IN [newTables |-> SelectSeq(desiredTables, LAMBDA t : ~MapHas(current.tables, t.name)),
        droppedTables |-> dropped,
        modifiedTables |-> modified,
        warnings |->
            [i \in 1..Len(dropped) |-> DroppedWarning(dropped[i].name)]
            \* the key of the loop is the name of the current table
            \o [i \in 1..Len(losing) |->
                   LoseColumnsWarning(losing[i].tableName, losing[i].droppedColumns)]]

\* the schemas diffSchemas is called with
Types == {"INTEGER", "TEXT"}

Defaults == {"undefined", "0"}

IdColumns ==
    [name : {"id"}, type : Types, nullable : BOOLEAN, primaryKey : BOOLEAN,
     defaultValue : Defaults]

EmailColumns ==
    [name : {"email"}, type : {"TEXT"}, nullable : BOOLEAN, primaryKey : {FALSE},
     defaultValue : {"undefined"}]

SecondColumns ==
    EmailColumns \cup [name : {"id"}, type : {"TEXT"}, nullable : {TRUE},
                       primaryKey : {FALSE}, defaultValue : {"undefined"}]

ColumnLists ==
    {<<>>} \cup {<<c>> : c \in IdColumns \cup EmailColumns}
           \cup {<<c, d>> : c \in IdColumns \cup EmailColumns, d \in SecondColumns}

UsersTables == [name : {"users"}, columns : ColumnLists]

PostsTables == [name : {"posts"}, columns : {<<c>> : c \in EmailColumns}]

TableLists ==
    {<<>>} \cup {<<t>> : t \in UsersTables \cup PostsTables}
           \cup {<<t, u>> : t \in UsersTables, u \in PostsTables}
           \cup {<<u, t>> : u \in PostsTables, t \in UsersTables}
           \cup {<<t, u>> : t \in PostsTables, u \in PostsTables}

Schemas == [tables : TableLists]

\* const diff = diffSchemas(currentSchema, desiredSchema)
Diff ==
    /\ ~dv.called
    /\ dv' = [dv EXCEPT !.called = TRUE, !.diff = diffSchemas(dv.current, dv.desired)]
    /\ UNCHANGED <<disk, edits, faults, tableExists, history, schema, now, conn, checkedOut,
                   calls, ex, gh, created, pv>>

DiffInit ==
    /\ disk = <<>>
    /\ edits = 0
    /\ faults = 0
    /\ tableExists = FALSE
    /\ history = {}
    /\ schema = EmptyBag
    /\ now = 1
    /\ conn = [p \in Procs |-> NoConn]
    /\ checkedOut = [p \in Procs |-> 0]
    /\ calls = [p \in Procs |-> 0]
    /\ ex = [p \in Procs |-> IdleEx]
    /\ gh = [p \in Procs |-> FreshGh(NoPrev, {}, EmptyBag)]
    /\ created = <<>>
    /\ pv = NoParseCall
    /\ \E current \in Schemas, desired \in Schemas :
           dv = [called |-> FALSE, current |-> current, desired |-> desired,
                 diff |-> EmptyDiff]

DiffNext == Diff

DiffSpec == DiffInit /\ [][DiffNext]_vars

(***************************************************************************)
(* The schema parser.  A text is a sequence of lexemes: words, keywords,  *)
(* punctuation, blanks, comment marks and the halves of a quoted string.  *)
(* Only the lexeme ";" holds a semicolon, only "," a comma, only " " and  *)
(* newline are white, so that split, trim, startsWith, includes and the   *)
(* regular expressions of the parser are computed lexeme by lexeme.  The  *)
(* patterns are read without the blanks inside "(? :" and "? .", with     *)
(* which they are no expressions.                                          *)
(***************************************************************************)
NL == "\n"

Blanks == {" ", NL}

\* the lexemes \w+ matches
Words == {"users", "posts", "id", "email", "INTEGER", "TEXT", "text", "note", "DEFAULT", "0"}

\* String.prototype.toUpperCase on a lexeme
Upper(x) ==
    IF x = "text" THEN "TEXT"
    ELSE IF x = "create table" THEN "CREATE TABLE"
    ELSE IF x = "note" THEN "NOTE"
    ELSE x

\* the first index of a lexeme of set S in text, 0 when there is none
FirstIn(text, S) ==
    IF \E i \in 1..Len(text) : text[i] \in S
    THEN CHOOSE i \in 1..Len(text) : text[i] \in S /\ \A j \in 1..(i - 1) : text[j] \notin S
    ELSE 0

\* String.prototype.split(sep)
RECURSIVE SplitAt(_, _)
SplitAt(text, sep) ==
    LET i == FirstIn(text, {sep})
    IN IF i = 0 THEN <<text>>
       ELSE <<SubSeq(text, 1, i - 1)>> \o SplitAt(SubSeq(text, i + 1, Len(text)), sep)

\* String.prototype.trim
RECURSIVE Trim(_)
Trim(text) ==
    IF text = <<>> THEN <<>>
    ELSE IF Head(text) \in Blanks THEN Trim(Tail(text))
    ELSE IF text[Len(text)] \in Blanks THEN Trim(SubSeq(text, 1, Len(text) - 1))
    ELSE text

\* String.prototype.startsWith, of the upper-cased text
StartsWith(text, lexeme) == text # <<>> /\ Upper(text[1]) = lexeme

\* String.prototype.includes, of the upper-cased text
Includes(text, lexeme) == \E i \in 1..Len(text) : Upper(text[i]) = lexeme

\* smartSplit(input, ','): a split at the commas of depth 0
RECURSIVE smartSplitFrom(_, _, _)
smartSplitFrom(input, current, depth) ==
    IF input = <<>> THEN (IF current # <<>> THEN <<current>> ELSE <<>>)
    ELSE LET char == Head(input)
         IN IF char = "(" THEN smartSplitFrom(Tail(input), Append(current, char), depth + 1)
            ELSE IF char = ")" THEN smartSplitFrom(Tail(input), Append(current, char), depth - 1)
            ELSE IF char = "," /\ depth = 0
                 THEN <<current>> \o smartSplitFrom(Tail(input), <<>>, depth)
            ELSE smartSplitFrom(Tail(input), Append(current, char), depth)

smartSplit(input) == smartSplitFrom(input, <<>>, 0)

\* trimmed.split(/\s+/): the runs of lexemes between runs of blanks
RECURSIVE SplitBlanks(_)
SplitBlanks(text) ==
    LET i == FirstIn(text, Blanks)
    IN IF i = 0 THEN <<text>>
       ELSE <<SubSeq(text, 1, i - 1)>> \o SplitBlanks(Trim(SubSeq(text, i, Len(text))))

\* parts[0].replace(/["]/g, '')
Unquote(part) == SelectSeq(part, LAMBDA x : x # "\"")

\* trimmed.match(/DEFAULT\s+([^ ,]+)/i)?.[1] : <<>> stands for undefined
RECURSIVE TakeDefault(_)
TakeDefault(text) ==
    IF text = <<>> \/ Head(text) \in {" ", ","} THEN <<>>
    ELSE <<Head(text)>> \o TakeDefault(Tail(text))

RECURSIVE SkipBlanks(_)
SkipBlanks(text) ==
    IF text # <<>> /\ Head(text) \in Blanks THEN SkipBlanks(Tail(text)) ELSE text

DefaultOf(trimmed) ==
    LET starts == {i \in 1..(Len(trimmed) - 2) :
                      /\ Upper(trimmed[i]) = "DEFAULT"
                      /\ trimmed[i + 1] \in Blanks
                      /\ SkipBlanks(SubSeq(trimmed, i + 1, Len(trimmed))) # <<>>}
    IN IF starts = {} THEN <<>>
       ELSE LET i == CHOOSE k \in starts : \A j \in starts : k <= j
            IN TakeDefault(SkipBlanks(SubSeq(trimmed, i + 1, Len(trimmed))))

\* the SchemaColumn pushed for one column definition
ColumnOf(trimmed) ==
    LET parts == SplitBlanks(trimmed)
    IN [name |-> Unquote(parts[1]),
        type |-> [i \in 1..Len(parts[2]) |-> Upper(parts[2][i])],
        nullable |-> ~Includes(trimmed, "NOT NULL"),
        primaryKey |-> Includes(trimmed, "PRIMARY KEY"),
        defaultValue |-> DefaultOf(trimmed)]

\* the definitions parseColumns does not skip
IsColumnDef(trimmed) ==
    /\ ~StartsWith(trimmed, "PRIMARY KEY")
    /\ ~StartsWith(trimmed, "FOREIGN KEY")
    /\ ~StartsWith(trimmed, "CONSTRAINT")
    /\ Len(SplitBlanks(trimmed)) >= 2

parseColumns(columnSection) ==
    LET columnDefs == smartSplit(columnSection)
        trimmed == [i \in 1..Len(columnDefs) |-> Trim(columnDefs[i])]
        kept == SelectSeq(trimmed, IsColumnDef)
    IN [i \in 1..Len(kept) |-> ColumnOf(kept[i])]

\* what follows the first CREATE TABLE\s+ with an optional quote and a word after it,
\* <<>> when the pattern does not match (the inputs hold no IF NOT EXISTS)
TableNameMatch(sql) ==
    LET AfterAt(i) == SkipBlanks(SubSeq(sql, i + 1, Len(sql)))
        Named(i) == LET rest == AfterAt(i)
                    IN IF rest # <<>> /\ Head(rest) = "\"" THEN Tail(rest) ELSE rest
        starts == {i \in 1..(Len(sql) - 1) :
                      /\ Upper(sql[i]) = "CREATE TABLE"
                      /\ sql[i + 1] \in Blanks
                      /\ Named(i) # <<>>
                      /\ Head(Named(i)) \in Words}
    IN IF starts = {} THEN <<>>
       ELSE <<Head(Named(CHOOSE k \in starts : \A j \in starts : k <= j))>>

\* sql.match(/\((.*)\)/s)?.[1] || '' : from the first "(" to the last ")"
ColumnSection(sql) ==
    LET opens == {i \in 1..Len(sql) : sql[i] = "("}
        closes == {i \in 1..Len(sql) : sql[i] = ")"}
    IN IF opens = {} \/ closes = {} THEN <<>>
       ELSE LET a == CHOOSE i \in opens : \A j \in opens : i <= j
                b == CHOOSE i \in closes : \A j \in closes : j <= i
            IN IF a < b THEN SubSeq(sql, a + 1, b - 1) ELSE <<>>

\* parseCreateTable of a statement whose table name is matched; indexes and
\* constraints, which nothing here reads, are left out
parseCreateTable(sql) ==
    [name |-> TableNameMatch(sql)[1], columns |-> parseColumns(ColumnSection(sql))]

\* the statements parseSchema keeps: the pieces between semicolons, trimmed, that
\* are not empty and do not start with "--"
Statements(sqlContent) ==
    LET pieces == SplitAt(sqlContent, ";")
        trimmed == [i \in 1..Len(pieces) |-> Trim(pieces[i])]
    IN SelectSeq(trimmed, LAMBDA stmt : Len(stmt) > 0 /\ stmt[1] # "--")

parseSchema(sqlContent) ==
    LET creates == SelectSeq(Statements(sqlContent),
                       LAMBDA statement : /\ StartsWith(statement, "CREATE TABLE")
                                          /\ TableNameMatch(statement) # <<>>)
    IN [tables |-> [i \in 1..Len(creates) |-> parseCreateTable(creates[i])]]

\* the schema files parseSchema is called with: one or two CREATE TABLE statements,
\* each with or without a comment before it, after its "(" and before its ";"
MaxStatements == 2

LineComment == <<"--", " ", "note", NL>>

BlockComment == <<"/*", " ", "note", " ", "*/", NL>>

Comment(kind) ==
    IF kind = "line" THEN LineComment ELSE IF kind = "block" THEN BlockComment ELSE <<>>

CommentKinds == {"none", "line", "block"}

\* CREATE TABLE users (id INTEGER, email text NOT NULL)
UsersBody == <<"id", " ", "INTEGER", ",", " ", "email", " ", "text", " ", "NOT NULL">>

\* CREATE TABLE posts (id INTEGER DEFAULT 'a;b')
PostsBody == <<"id", " ", "INTEGER", " ", "DEFAULT", " ", "'a", ";", "b'">>

Decorated == [table : {"users", "posts"}, before : CommentKinds, inside : CommentKinds,
              after : CommentKinds]

Render(d) ==
    Comment(d.before)
        \o <<"CREATE TABLE", " ", d.table, " ", "(">>
        \o Comment(d.inside)
        \o (IF d.table = "users" THEN UsersBody ELSE PostsBody)
        \o <<")", NL>>
        \o Comment(d.after)
        \o <<";", NL>>

RECURSIVE RenderAll(_)
RenderAll(script) ==
    IF script = <<>> THEN <<>> ELSE Render(Head(script)) \o RenderAll(Tail(script))

Scripts == UNION {[1..n -> Decorated] : n \in 1..MaxStatements}

\* const desiredSchema = parseSchema(schemaContent)
Parse ==
    /\ ~pv.called
    /\ pv' = [pv EXCEPT !.called = TRUE, !.tables = parseSchema(pv.text).tables]
    /\ UNCHANGED <<disk, edits, faults, tableExists, history, schema, now, conn, checkedOut,
                   calls, ex, gh, created, dv>>

ParseInit ==
    /\ disk = <<>>
    /\ edits = 0
    /\ faults = 0
    /\ tableExists = FALSE
    /\ history = {}
    /\ schema = EmptyBag
    /\ now = 1
    /\ conn = [p \in Procs |-> NoConn]
    /\ checkedOut = [p \in Procs |-> 0]
    /\ calls = [p \in Procs |-> 0]
    /\ ex = [p \in Procs |-> IdleEx]
    /\ gh = [p \in Procs |-> FreshGh(NoPrev, {}, EmptyBag)]
    /\ created = <<>>
    /\ dv = NoDiffCall
    /\ \E script \in Scripts :
           pv = [called |-> FALSE, script |-> script, text |-> RenderAll(script),
                 tables |-> <<>>]

ParseNext == Parse

ParseSpec == ParseInit /\ [][ParseNext]_vars


(***************************************************************************)
(* What an invocation has added to the database since it started.         *)
(***************************************************************************)
Done(p) == ex[p].pc = "done" /\ ex[p].result.outcome = "returned"

RowAdded(p, name) == \E r \in history \ gh[p].atStart.history : r.name = name

DDLAdded(p, m) == CopiesIn(Effect(m), schema) > CopiesIn(Effect(m), gh[p].atStart.schema)

DatabaseUnchanged(p) ==
    /\ history = gh[p].atStart.history
    /\ schema = gh[p].atStart.schema

(***************************************************************************)
(* C1.  execute is all-or-nothing per migration: in every reachable state *)
(* of an invocation, whatever step failed, the DDL of a migration is      *)
(* committed if and only if its atlas_migrations row is committed.        *)
(***************************************************************************)
C1_AllOrNothing ==
    \A p \in SeqProcs :
        ex[p].mode = "execute" =>
            \A i \in 1..Len(ex[p].migrations) :
                RowAdded(p, ex[p].migrations[i].name) <=> DDLAdded(p, ex[p].migrations[i])

\* the INSERT of the second migration failed after its DDL had run in the
\* transaction, and the first migration of the invocation was committed
C1_Witness ==
    \E p \in SeqProcs :
        /\ Done(p) /\ ex[p].mode = "execute"
        /\ Len(gh[p].started) = 2
        /\ gh[p].failedAt = gh[p].started[2]
        /\ gh[p].failedStep = "insert"
        /\ RowAdded(p, gh[p].started[1])
        /\ ~RowAdded(p, gh[p].started[2])

(***************************************************************************)
(* C2.  The migrations committed within one invocation of execute on the  *)
(* result of loadAll are committed in strictly ascending numeric version  *)
(* order.                                                                  *)
(***************************************************************************)
NumericVersion(name) == ParseInt(VersionOf(name))

C2_StrictlyAscending ==
    \A p \in SeqProcs :
        ex[p].mode = "execute" =>
            \A i, j \in 1..Len(ex[p].migrationsRun) :
                i < j => NumericVersion(ex[p].migrationsRun[i])
                           < NumericVersion(ex[p].migrationsRun[j])

(***************************************************************************)
(* C3.  When applying a pending migration M fails, M's transaction is     *)
(* rolled back, no later migration is started, the migrations committed   *)
(* before M stay committed, and the result has success = false,           *)
(* migrationsRun = the names committed before M, and an error that        *)
(* contains the name of M.                                                 *)
(***************************************************************************)
C3_FailureStopsAndReports ==
    \A p \in SeqProcs :
        (Done(p) /\ ex[p].mode = "execute" /\ gh[p].failedAt # NoName) =>
            LET k == ex[p].idx
                before == Names(SubSeq(ex[p].pending, 1, k - 1))
            IN /\ ~conn[p].inTx
               /\ ~RowAdded(p, gh[p].failedAt)
               /\ gh[p].started = Names(SubSeq(ex[p].pending, 1, k))
               /\ \A i \in 1..(k - 1) : RowAdded(p, before[i])
               /\ ~ex[p].result.success
               /\ ex[p].result.migrationsRun = before
               /\ Contains(ex[p].result.error, gh[p].failedAt)

(***************************************************************************)
(* C4.  Two concurrent invocations of execute on the same database never  *)
(* overlap their migration transactions: an advisory lock held for the    *)
(* whole apply serializes them, so no state has both processes between    *)
(* BEGIN and COMMIT / ROLLBACK.                                            *)
(***************************************************************************)
C4_TransactionsNeverOverlap ==
    \A p, q \in Procs : (conn[p].inTx /\ conn[q].inTx) => p = q

(***************************************************************************)
(* C5.  Applying the same batch a second time, with no failure and no dry *)
(* run, finds nothing pending: no transaction is begun, no DDL is         *)
(* executed, no row is inserted, the result is a success with an empty    *)
(* migrationsRun, and history and schema are those the first call left.   *)
(***************************************************************************)
SecondApply(p) ==
    /\ ex[p].mode = "execute" /\ ~ex[p].options.dryRun /\ ~gh[p].faulted
    /\ gh[p].prev.mode = "execute" /\ gh[p].prev.success /\ ~gh[p].prev.dryRun
    /\ gh[p].prev.migrations = ex[p].migrations

C5_SecondApplyIsNoOp ==
    \A p \in SeqProcs :
        SecondApply(p) =>
            /\ gh[p].started = <<>>
            /\ ~conn[p].inTx
            /\ DatabaseUnchanged(p)
            /\ Done(p) => /\ ex[p].result.success
                          /\ ex[p].result.migrationsRun = <<>>
                          /\ ex[p].pending = <<>>

\* the second apply of a batch whose first apply committed two migrations has returned
C5_Witness ==
    \E p \in SeqProcs :
        /\ Done(p) /\ SecondApply(p)
        /\ Len(ex[p].applied) = 2
        /\ Len(ex[p].migrations) = 2

(***************************************************************************)
(* C6.  A migration whose name is in atlas_migrations with another        *)
(* checksum (the file was edited after apply) makes execute without force *)
(* fail with a checksum-mismatch drift error and apply nothing.           *)
(***************************************************************************)
IsDriftError(err, kind) == Contains(err, <<kind>>)

ChecksumMismatch(p) ==
    \E i \in 1..Len(ex[p].migrations), j \in 1..Len(ex[p].applied) :
        /\ ex[p].migrations[i].name = ex[p].applied[j].name
        /\ ex[p].migrations[i].checksum # ex[p].applied[j].checksum

C6_ChecksumDriftDetected ==
    \A p \in SeqProcs :
        (Done(p) /\ ex[p].mode = "execute" /\ ~ex[p].options.force /\ ChecksumMismatch(p)) =>
            /\ ~ex[p].result.success
            /\ IsDriftError(ex[p].result.error, "checksum-mismatch")
            /\ gh[p].committedRows = {}

(***************************************************************************)
(* C7.  A row of atlas_migrations whose name matches no loaded migration  *)
(* makes execute without force fail with a missing-file drift error and   *)
(* apply nothing; hence after an apply that succeeded every history row   *)
(* has a migration on disk with its name and checksum.                    *)
(***************************************************************************)
MissingFile(p) ==
    \E j \in 1..Len(ex[p].applied) :
        \A i \in 1..Len(ex[p].migrations) : ex[p].migrations[i].name # ex[p].applied[j].name

\* (that the checksum of the row is the file's too is the subject of C6)
C7_MissingFileDetected ==
    \A p \in SeqProcs :
        (Done(p) /\ ex[p].mode = "execute" /\ ~ex[p].options.force) =>
            /\ MissingFile(p) =>
                  /\ ~ex[p].result.success
                  /\ IsDriftError(ex[p].result.error, "missing-file")
                  /\ gh[p].committedRows = {}
            /\ ex[p].result.success =>
                  \A r \in history :
                      \E i \in 1..Len(ex[p].migrations) : ex[p].migrations[i].name = r.name

(***************************************************************************)
(* C8.  A pending migration whose version is at most the largest applied  *)
(* version makes execute without force fail with an out-of-order drift    *)
(* error naming the migration, and that migration is not applied.         *)
(***************************************************************************)
OutOfOrder(p, m) ==
    \E j \in 1..Len(ex[p].applied) :
        ParseInt(m.version) <= NumericVersion(ex[p].applied[j].name)

C8_OutOfOrderDetected ==
    \A p \in SeqProcs :
        (Done(p) /\ ex[p].mode = "execute" /\ ~ex[p].options.force) =>
            \A i \in 1..Len(ex[p].pending) :
                OutOfOrder(p, ex[p].pending[i]) =>
                    /\ ~ex[p].result.success
                    /\ IsDriftError(ex[p].result.error, "out-of-order")
                    /\ Contains(ex[p].result.error, ex[p].pending[i].name)
                    /\ ex[p].pending[i].name \notin gh[p].committedRows

(***************************************************************************)
(* C9.  With checkForDataLoss and without force, a migration whose DDL    *)
(* comes from a diff with a destructive warning (a dropped table or       *)
(* column) is refused: it is not applied, history and schema are          *)
(* unchanged.                                                              *)
(***************************************************************************)
C9_DestructiveRefused ==
    \A p \in SeqProcs :
        (ex[p].mode = "execute" /\ checkForDataLoss /\ ~ex[p].options.force) =>
            \A i \in 1..Len(ex[p].pending) :
                Destructive(ex[p].pending[i].content) =>
                    /\ ex[p].pending[i].name \notin gh[p].committedRows
                    /\ ~DDLAdded(p, ex[p].pending[i])
                    /\ DatabaseUnchanged(p)

(***************************************************************************)
(* C10.  execute with dryRun issues no BEGIN, executes no migration DDL   *)
(* and inserts no history row: the rows of atlas_migrations and the user  *)
(* schema are, during and after the call, what they were before it.       *)
(***************************************************************************)
C10_DryRunChangesNothing ==
    \A p \in SeqProcs :
        (ex[p].mode = "execute" /\ ex[p].options.dryRun) =>
            /\ gh[p].started = <<>>
            /\ ~conn[p].inTx
            /\ conn[p].txDDL = EmptyBag /\ conn[p].txRows = {}
            /\ DatabaseUnchanged(p)

\* a dry run that had two migrations pending has returned their names
C10_Witness ==
    \E p \in SeqProcs :
        /\ Done(p) /\ ex[p].mode = "execute" /\ ex[p].options.dryRun
        /\ Len(ex[p].result.migrationsRun) = 2


(***************************************************************************)
(* C11.  In every result returned by execute, migrationsRun is the list   *)
(* of the migrations applied: each name in it has a history row committed *)
(* by this invocation, and each migration committed by this invocation is *)
(* in it.                                                                  *)
(***************************************************************************)
C11_MigrationsRunIsApplied ==
    \A p \in SeqProcs :
        (Done(p) /\ ex[p].mode = "execute") =>
            /\ \A n \in Range(ex[p].result.migrationsRun) : RowAdded(p, n)
            /\ \A i \in 1..Len(ex[p].migrations) :
                  RowAdded(p, ex[p].migrations[i].name) =>
                      ex[p].migrations[i].name \in Range(ex[p].result.migrationsRun)

(***************************************************************************)
(* C12.  rollback(n) on a history of k rows deletes exactly the min(n, k) *)
(* rows with the latest applied_at and leaves every other row unchanged;  *)
(* with an empty history it deletes nothing and returns success with an   *)
(* empty migrationsRun.                                                    *)
(***************************************************************************)
\* the n rows of latest applied_at
Latest(rows, n) ==
    {r \in rows : Cardinality({q \in rows : q.applied_at > r.applied_at}) < n}

Min(a, b) == IF a < b THEN a ELSE b

C12_RollbackDeletesLatest ==
    \A p \in SeqProcs :
        ex[p].mode = "rollback" =>
            LET before == gh[p].atStart.history
                target == Latest(before, ex[p].count)
            IN /\ history \subseteq before
               /\ (before \ history) \subseteq target
               /\ schema = gh[p].atStart.schema
               /\ (Done(p) /\ ex[p].result.success) =>
                     /\ before \ history = target
                     /\ Cardinality(before \ history)
                          = Min(ex[p].count, Cardinality(before))
               /\ (Done(p) /\ before = {} /\ ~gh[p].faulted) =>
                     /\ ex[p].result.success
                     /\ ex[p].result.migrationsRun = <<>>

\* rollback(1) on a history of two rows has returned: the older row is left
C12_Witness ==
    \E p \in SeqProcs :
        /\ Done(p) /\ ex[p].mode = "rollback" /\ ex[p].result.success
        /\ ex[p].count = 1
        /\ Cardinality(gh[p].atStart.history) = 2
        /\ Cardinality(history) = 1

(***************************************************************************)
(* C14.  Each call of execute and of rollback checks out one client of    *)
(* the pool and releases it once on every exit path: while the call runs  *)
(* one client is out, and after it none.                                   *)
(***************************************************************************)
C14_ClientReleased ==
    \A p \in SeqProcs :
        checkedOut[p] = IF ex[p].pc \in {"idle", "connect", "done"} THEN 0 ELSE 1

\* calls have ended after a failed ROLLBACK, and after a failed DELETE of rollback
C14_Witness ==
    \E p \in SeqProcs :
        /\ Done(p) /\ checkedOut[p] = 0
        /\ \/ ex[p].mode = "execute" /\ gh[p].failedAt # NoName
                 /\ ex[p].result.error = DbError
           \/ ex[p].mode = "rollback" /\ ex[p].idx > 0 /\ ~ex[p].result.success


(***************************************************************************)
(* C13.  In strict mode rollback never deletes the history row of a       *)
(* migration that has no down-migration file (the row stays), and a row   *)
(* is deleted without any DDL being executed only in permissive mode.     *)
(***************************************************************************)
DotDownDotSql == <<".", "d", "o", "w", "n", ".", "s", "q", "l">>

\* <version>_<name>.down.sql of the migration a history row names
DownFileOf(name) ==
    IF EndsWith(name, DotSql)
    THEN SubSeq(name, 1, Len(name) - Len(DotSql)) \o DotDownDotSql
    ELSE name \o DotDownDotSql

HasDownFile(name) == DownFileOf(name) \in DOMAIN disk

RowsDeleted(p) == gh[p].atStart.history \ history

C13_StrictRollbackNeedsDownFile ==
    \A p \in SeqProcs :
        (ex[p].mode = "rollback" /\ gh[p].strict) =>
            /\ \A r \in RowsDeleted(p) : HasDownFile(r.name)
            /\ RowsDeleted(p) # {} => schema # gh[p].atStart.schema


(***************************************************************************)
(* The naming pattern of a migration file: <version>_<name>.sql with a    *)
(* positive integer version and a snake_case name.                         *)
(***************************************************************************)
LowerCase == {"a", "b", "c", "d", "e", "f", "g", "h", "i", "j", "k", "l", "m",
              "n", "o", "p", "q", "r", "s", "t", "u", "v", "w", "x", "y", "z"}

IsSnakeCase(s) ==
    /\ s # <<>>
    /\ s[1] \in LowerCase
    /\ \A i \in 1..Len(s) : s[i] \in LowerCase \/ IsDigit(s[i]) \/ s[i] = "_"

\* what stands between "<version>_" and ".sql" in a file name
NamePart(f) == SubSeq(f, Len(LeadingDigits(f)) + 2, Len(f) - Len(DotSql))

IsMigrationFile(f) ==
    /\ LeadingDigits(f) # <<>>
    /\ ParseInt(LeadingDigits(f)) > 0
    /\ EndsWith(f, DotSql)
    /\ Len(f) > Len(LeadingDigits(f)) + Len(DotSql)
    /\ f[Len(LeadingDigits(f)) + 1] = "_"
    /\ IsSnakeCase(NamePart(f))

(***************************************************************************)
(* C15.  After create has returned a Migration its file is on disk: a     *)
(* loadAll of the directory returns a migration with the same name,       *)
(* version, content and checksum; and of two consecutive calls of create  *)
(* the second is given the greater version.                                *)
(***************************************************************************)
SameMigration(a, b) ==
    /\ a.name = b.name /\ a.version = b.version
    /\ a.content = b.content /\ a.checksum = b.checksum

C15_CreateWritesFile ==
    /\ \A k \in 1..Len(created) :
          \A listing \in Listings(DOMAIN disk) :
              \E i \in 1..Len(loadAll(listing, disk)) :
                  SameMigration(loadAll(listing, disk)[i], created[k].returned)
    /\ \A k \in 1..(Len(created) - 1) :
          ParseInt(created[k + 1].returned.version) > ParseInt(created[k].returned.version)

(***************************************************************************)
(* C16.  The version create allocates is one more than the greatest       *)
(* version among the migration files of the directory, and 1 when there   *)
(* are none or the directory cannot be read; other files do not count.    *)
(***************************************************************************)
C16_NextVersionFromMigrationFiles ==
    \A k \in 1..Len(created) :
        ParseInt(created[k].returned.version) =
            IF created[k].readdirOk
            THEN 1 + MaxOf({0} \cup {ParseInt(LeadingDigits(f)) :
                                       f \in {g \in created[k].files : IsMigrationFile(g)}})
            ELSE 1

(***************************************************************************)
(* C17.  loadAll returns a migration only for entries named               *)
(* <version>_<name>.sql; down scripts and .sql files without a version    *)
(* are skipped, so apply never runs them as pending migrations.           *)
(***************************************************************************)
C17_OnlyMigrationFilesLoaded ==
    \A p \in SeqProcs :
        /\ \A i \in 1..Len(ex[p].migrations) : IsMigrationFile(ex[p].migrations[i].path)
        /\ \A i \in 1..Len(ex[p].pending) : IsMigrationFile(ex[p].pending[i].path)
        /\ \A r \in history : IsMigrationFile(r.name)

(***************************************************************************)
(* C18.  Every list loadAll returns satisfies the load invariants: no two *)
(* migrations share a version, no two share a name, every name is         *)
(* snake_case; a directory that violates one does not load.                *)
(***************************************************************************)
C18_LoadInvariants ==
    \A p \in SeqProcs :
        LET ms == ex[p].migrations
        IN /\ \A i, j \in 1..Len(ms) :
                 i # j => /\ ParseInt(ms[i].version) # ParseInt(ms[j].version)
                          /\ ms[i].name # ms[j].name
                          /\ NamePart(ms[i].path) # NamePart(ms[j].path)
           /\ \A i \in 1..Len(ms) : IsSnakeCase(NamePart(ms[i].path))


(***************************************************************************)
(* C19.  diffSchemas(S, S) is empty for every valid schema S: newTables,  *)
(* droppedTables, modifiedTables and warnings are all empty.               *)
(***************************************************************************)
Distinct(items) ==
    \A i, j \in 1..Len(items) : items[i].name = items[j].name => i = j

\* table names are distinct, and the column names of each table
IsValidSchema(S) ==
    /\ Distinct(S.tables)
    /\ \A i \in 1..Len(S.tables) : Distinct(S.tables[i].columns)

C19_DiffIdentity ==
    (dv.called /\ dv.current = dv.desired /\ IsValidSchema(dv.current)) =>
        /\ dv.diff.newTables = <<>>
        /\ dv.diff.droppedTables = <<>>
        /\ dv.diff.modifiedTables = <<>>
        /\ dv.diff.warnings = <<>>

\* a schema of two tables, one with two columns, has been compared with itself
C19_Witness ==
    /\ dv.called /\ dv.current = dv.desired /\ IsValidSchema(dv.current)
    /\ Len(dv.current.tables) = 2
    /\ \E i \in 1..2 : Len(dv.current.tables[i].columns) = 2
    /\ dv.diff = EmptyDiff

(***************************************************************************)
(* C20.  A column present in both the current and the desired table is    *)
(* listed in modifiedColumns if and only if its type, its nullability,    *)
(* its default value or its primary-key flag differs between the two.     *)
(***************************************************************************)
ListedAsModified(t, n) ==
    \E i \in 1..Len(dv.diff.modifiedTables) :
        /\ dv.diff.modifiedTables[i].tableName = t
        /\ \E j \in 1..Len(dv.diff.modifiedTables[i].modifiedColumns) :
               dv.diff.modifiedTables[i].modifiedColumns[j].columnName = n

Differs(c, d) ==
    \/ c.type # d.type
    \/ c.nullable # d.nullable
    \/ c.defaultValue # d.defaultValue
    \/ c.primaryKey # d.primaryKey

C20_ModifiedIffAttributeDiffers ==
    (dv.called /\ IsValidSchema(dv.current) /\ IsValidSchema(dv.desired)) =>
        \A i \in 1..Len(dv.current.tables), j \in 1..Len(dv.desired.tables) :
            dv.current.tables[i].name = dv.desired.tables[j].name =>
                \A k \in 1..Len(dv.current.tables[i].columns),
                   l \in 1..Len(dv.desired.tables[j].columns) :
                    LET c == dv.current.tables[i].columns[k]
                        d == dv.desired.tables[j].columns[l]
                    IN c.name = d.name =>
                          (ListedAsModified(dv.current.tables[i].name, c.name)
                               <=> Differs(c, d))


(***************************************************************************)
(* C21.  For every pair (current, desired) the added, dropped and         *)
(* modified tables of diffSchemas are pairwise disjoint by name; added is *)
(* exactly the tables of desired absent from current, dropped exactly the *)
(* tables of current absent from desired, every modified table is in      *)
(* both; within a modified table the added, dropped and modified columns  *)
(* are pairwise disjoint as well.                                          *)
(***************************************************************************)
NameSet(items) == Range(Names(items))

TableDiffNames(tableDiffs) == {tableDiffs[i].tableName : i \in 1..Len(tableDiffs)}

ColumnDiffNames(columnDiffs) == {columnDiffs[i].columnName : i \in 1..Len(columnDiffs)}

Disjoint3(A, B, C) == A \cap B = {} /\ A \cap C = {} /\ B \cap C = {}

C21_DiffSetsDisjoint ==
    dv.called =>
        LET added == NameSet(dv.diff.newTables)
            gone == NameSet(dv.diff.droppedTables)
            modified == TableDiffNames(dv.diff.modifiedTables)
        IN /\ Disjoint3(added, gone, modified)
           /\ added = NameSet(dv.desired.tables) \ NameSet(dv.current.tables)
           /\ Range(dv.diff.newTables) \subseteq Range(dv.desired.tables)
           /\ gone = NameSet(dv.current.tables) \ NameSet(dv.desired.tables)
           /\ Range(dv.diff.droppedTables) \subseteq Range(dv.current.tables)
           /\ modified \subseteq NameSet(dv.current.tables) \cap NameSet(dv.desired.tables)
           /\ \A i \in 1..Len(dv.diff.modifiedTables) :
                 Disjoint3(NameSet(dv.diff.modifiedTables[i].newColumns),
                           NameSet(dv.diff.modifiedTables[i].droppedColumns),
                           ColumnDiffNames(dv.diff.modifiedTables[i].modifiedColumns))

\* one table dropped, and another modified with a dropped and a modified column
C21_Witness ==
    /\ dv.called
    /\ dv.diff.droppedTables # <<>>
    /\ \E i \in 1..Len(dv.diff.modifiedTables) :
          /\ dv.diff.modifiedTables[i].droppedColumns # <<>>
          /\ dv.diff.modifiedTables[i].modifiedColumns # <<>>

(***************************************************************************)
(* C22.  diffSchemas warns of every dropped table and of every dropped    *)
(* column: each table of droppedTables and each column of a               *)
(* droppedColumns is named in an entry of warnings.                        *)
(***************************************************************************)
\* warning w speaks of table t and names n after the table
NamesInTable(w, t, n) == Len(w) > 3 /\ w[2] = t /\ \E k \in 4..Len(w) : w[k] = n

C22_DropsAreWarned ==
    dv.called =>
        /\ \A i \in 1..Len(dv.diff.droppedTables) :
              \E k \in 1..Len(dv.diff.warnings) :
                  /\ Len(dv.diff.warnings[k]) > 1
                  /\ dv.diff.warnings[k][2] = dv.diff.droppedTables[i].name
        /\ \A i \in 1..Len(dv.diff.modifiedTables) :
              \A j \in 1..Len(dv.diff.modifiedTables[i].droppedColumns) :
                  \E k \in 1..Len(dv.diff.warnings) :
                      NamesInTable(dv.diff.warnings[k],
                                   dv.diff.modifiedTables[i].tableName,
                                   dv.diff.modifiedTables[i].droppedColumns[j].name)

\* a table is dropped and another loses both of its columns
C22_Witness ==
    /\ dv.called
    /\ dv.diff.droppedTables # <<>>
    /\ \E i \in 1..Len(dv.diff.modifiedTables) :
          Len(dv.diff.modifiedTables[i].droppedColumns) = 2
    /\ Len(dv.diff.warnings) = 2

(***************************************************************************)
(* C23.  diffSchemas warns of every modified column whose type change is  *)
(* not a safe widening (SMALLINT -> INTEGER -> BIGINT, VARCHAR(n) ->      *)
(* VARCHAR(m) with m > n, VARCHAR(n) -> TEXT, adding scale to NUMERIC),   *)
(* and gives no type warning for a change that is one.                     *)
(***************************************************************************)
SafeWidenings ==
    {<<"SMALLINT", "INTEGER">>, <<"INTEGER", "BIGINT">>, <<"SMALLINT", "BIGINT">>,
     <<"VARCHAR(10)", "VARCHAR(20)">>, <<"VARCHAR(10)", "TEXT">>, <<"VARCHAR(20)", "TEXT">>,
     <<"NUMERIC", "NUMERIC(10,2)">>}

C23_UnsafeTypeChangeWarned ==
    dv.called =>
        \A i \in 1..Len(dv.diff.modifiedTables) :
            \A j \in 1..Len(dv.diff.modifiedTables[i].modifiedColumns) :
                LET t == dv.diff.modifiedTables[i].tableName
                    c == dv.diff.modifiedTables[i].modifiedColumns[j]
                    warned == \E k \in 1..Len(dv.diff.warnings) :
                                  NamesInTable(dv.diff.warnings[k], t, c.columnName)
                IN c.oldType # c.newType =>
                      (warned <=> <<c.oldType, c.newType>> \notin SafeWidenings)


(***************************************************************************)
(* C25.  Under any interleaving of two concurrent execute invocations on  *)
(* the same migrations, atlas_migrations holds at most one row per        *)
(* migration name in every state and no migration's DDL is committed      *)
(* twice: of two transactions applying the same migration at most one     *)
(* commits.                                                                *)
(***************************************************************************)
C25_NoDuplicateApply ==
    /\ \A r1, r2 \in history : r1.name = r2.name => r1 = r2
    /\ \A e \in BagToSet(schema) : CopiesIn(e, schema) = 1
    /\ \A p, q \in Procs :
          p # q => /\ gh[p].committedRows \cap gh[q].committedRows = {}
                   /\ gh[p].committedDDL \cap gh[q].committedDDL = {}

\* both processes ran the same migration: one committed it, the INSERT of the other
\* hit the UNIQUE constraint
C25_Witness ==
    \E p, q \in Procs :
        /\ p # q
        /\ gh[q].failedAt # NoName
        /\ gh[q].failedAt \in gh[p].committedRows
        /\ gh[q].failedStep = "insert"
        /\ ex[q].cause = UniqueViolation
        /\ ~conn[q].inTx /\ ex[q].pc \in {"release", "done"}

(***************************************************************************)
(* C26.  If execute returns success = false with the error "Failed to     *)
(* apply M", then M was not committed: this invocation wrote no row for M *)
(* and M is not in migrationsRun, wherever the per-migration try block    *)
(* threw, the onMigration callback after COMMIT included.                  *)
(***************************************************************************)
FailedToApplyNames(err, name) ==
    /\ Len(err) >= Len(name) + 2
    /\ SubSeq(err, 1, Len(name) + 2) = <<"Failed to apply ">> \o name \o <<":  ">>

C26_FailedMeansNotCommitted ==
    \A p \in SeqProcs :
        (Done(p) /\ ex[p].mode = "execute" /\ ~ex[p].result.success) =>
            \A i \in 1..Len(ex[p].pending) :
                FailedToApplyNames(ex[p].result.error, ex[p].pending[i].name) =>
                    /\ ~RowAdded(p, ex[p].pending[i].name)
                    /\ ex[p].pending[i].name \notin Range(ex[p].result.migrationsRun)

(***************************************************************************)
(* C27.  rollback reports what it removed: when it returns success =      *)
(* false the call has deleted no history row, and in every result         *)
(* migrationsRun is exactly the names whose rows were deleted, also when  *)
(* a DELETE fails after earlier DELETEs of the call succeeded.             *)
(***************************************************************************)
C27_RollbackReportsDeleted ==
    \A p \in SeqProcs :
        (Done(p) /\ ex[p].mode = "rollback") =>
            /\ ~ex[p].result.success => RowsDeleted(p) = {}
            /\ Range(ex[p].result.migrationsRun) = RowNames(RowsDeleted(p))


(***************************************************************************)
(* C24.  parseSchema ends a statement only at a semicolon outside quoted  *)
(* strings, parentheses and comments, and ignores comments: the tables    *)
(* are the same with and without '--' and block comments, a CREATE TABLE  *)
(* after a '--' comment line is parsed, and a ';' inside a quoted default *)
(* does not end the statement.                                             *)
(***************************************************************************)
\* the table a statement declares
Declared(table) ==
    IF table = "users"
    THEN [name |-> "users",
          columns |-> << [name |-> <<"id">>, type |-> <<"INTEGER">>, nullable |-> TRUE,
                          primaryKey |-> FALSE, defaultValue |-> <<>>],
                         [name |-> <<"email">>, type |-> <<"TEXT">>, nullable |-> FALSE,
                          primaryKey |-> FALSE, defaultValue |-> <<>>] >>]
    ELSE [name |-> "posts",
          columns |-> << [name |-> <<"id">>, type |-> <<"INTEGER">>, nullable |-> TRUE,
                          primaryKey |-> FALSE, defaultValue |-> <<"'a", ";", "b'">>] >>]

C24_CommentsAndQuotesRespected ==
    pv.called =>
        pv.tables = [i \in 1..Len(pv.script) |-> Declared(pv.script[i].table)]

====
